---- MODULE Spec2Model ----
(***************************************************************************)
(* Model of the TaskTracker component (src/app/page.tsx): the in-memory    *)
(* task collection, the localStorage slot behind MOCK_API, the view        *)
(* parameters, the edit modal, and the handlers that change them.          *)
(*                                                                         *)
(* Strings are sequences of one-character strings.  A due date is the      *)
(* value of an <input type="date">, "YYYY-MM-DD", kept as <<y, m, d>>.     *)
(***************************************************************************)
EXTENDS Integers, Sequences, FiniteSets, TLC

\* ---------------------------------------------------------------- bounds
\* number of ids crypto.randomUUID() can hand out in one behaviour
MaxTasks == 2
\* longest collection the visible list is computed from under SpecView
MaxLen == 3

\* bound: largest collection shown while the search text is being typed
MaxShown == 2

\* ------------------------------------------------------------ input sets
Ids == 1..MaxTasks

\* what the user submits in the form of the modal: a title that passes the
\* `required` constraint with a due date that passes it on type="date"
Forms ==
    { [title |-> <<"B", "a">>, dueDate |-> <<2025, 1, 5>>],
      [title |-> <<"B", "a">>, dueDate |-> <<2024, 12, 20>>],
      [title |-> <<" ">>, dueDate |-> <<2024, 12, 20>>] }

\* texts typed in the search box
Searches == { <<>>, <<"A">>, <<"b", "a">> }

Filters == {"all", "pending", "done"}

Statuses == {"pending", "done"}

\* ------------------------------------------------------------- variables
VARIABLES
    tasks,            \* useState<Task[]>: the in-memory collection
    search,           \* useState: raw search text
    debouncedSearch,  \* useDebounce(search, 300)
    filter,           \* useState<TaskFilter>
    sortBy,           \* useState<TaskSort>
    isModalOpen,      \* useState(false)
    editingTask,      \* useState<Task | null>: snapshot of the task opened for edit
    storage,          \* localStorage["task_tracker_data"]: nothing, or a serialised array
    phase,            \* "mounted" (first render done, effects pending), "loaded" (the
                      \* load was applied, the effects of that render pending),
                      \* "ready", or "crashed" (an effect threw, the tree is unmounted)
    issued,           \* ids crypto.randomUUID() has returned so far
    now,              \* Date.now() at the last form submission that read it
    prev,             \* history: the collection before the last handler ran
    last,             \* history: the last handler and its arguments
    deleted,          \* history: ids a delete has removed from the collection
    wrote,            \* history: saveTasks was called by the render that followed the
                      \* last change of tasks or of a view parameter
    saved,            \* history: the collection of the last saveTasks that succeeded
    opener,           \* history: the button that last called openModal, "none" when closed
    quota             \* room left in localStorage: "free" or "full"

vars == << tasks, search, debouncedSearch, filter, sortBy, isModalOpen, editingTask,
           storage, phase, issued, now, prev, last, deleted, wrote, saved, opener,
           quota >>

view == << search, debouncedSearch, filter, sortBy >>
modal == << isModalOpen, editingTask, opener >>

\* ------------------------------------------------------------ strings
\* String.prototype.toLowerCase, one character
LowerChar(c) == CASE c = "A" -> "a" [] c = "B" -> "b" [] OTHER -> c

\* String.prototype.toLowerCase
toLowerCase(s) == [i \in 1..Len(s) |-> LowerChar(s[i])]

\* String.prototype.includes: sub occurs in s at some offset
includes(s, sub) ==
    \E off \in 0..(Len(s) - Len(sub)) :
        \A i \in 1..Len(sub) : s[off + i] = sub[i]

\* primary collation weight of a character: space before letters, case ignored
PrimaryWeight(c) == CASE c = " " -> 0 [] LowerChar(c) = "a" -> 1 [] OTHER -> 2

\* tertiary collation weight: lower case before upper case
TertiaryWeight(c) == IF c = LowerChar(c) THEN 0 ELSE 1

RECURSIVE CompareWeights(_, _, _)
\* lexicographic comparison of two strings by one collation level (level 1
\* or 3); a proper prefix sorts first.  Returns -1, 0 or 1.
CompareWeights(a, b, level) ==
    IF Len(a) = 0 /\ Len(b) = 0 THEN 0
    ELSE IF Len(a) = 0 THEN -1
    ELSE IF Len(b) = 0 THEN 1
    ELSE LET wa == IF level = 1 THEN PrimaryWeight(Head(a)) ELSE TertiaryWeight(Head(a))
             wb == IF level = 1 THEN PrimaryWeight(Head(b)) ELSE TertiaryWeight(Head(b))
         IN  IF wa < wb THEN -1
             ELSE IF wa > wb THEN 1
             ELSE CompareWeights(Tail(a), Tail(b), level)

\* String.prototype.localeCompare under the default collation: the primary
\* level decides, the case level breaks ties
localeCompare(a, b) ==
    LET p == CompareWeights(a, b, 1)
    IN  IF p # 0 THEN p ELSE CompareWeights(a, b, 3)

\* -------------------------------------------------------------- dates
\* new Date("YYYY-MM-DD").getTime(): a date-only string is UTC midnight.
\* The result is counted in whole days since 1970-01-01 (the millisecond
\* value is this number times 86400000), which keeps sign and equality of
\* every difference the comparator takes.
DateGetTime(d) ==
    LET y   == IF d[2] <= 2 THEN d[1] - 1 ELSE d[1]
        era == y \div 400
        yoe == y - era * 400
        mp  == IF d[2] > 2 THEN d[2] - 3 ELSE d[2] + 9
        doy == (153 * mp + 2) \div 5 + d[3] - 1
        doe == yoe * 365 + yoe \div 4 - yoe \div 100 + doy
    IN  era * 146097 + doe - 719468

\* ------------------------------------------------------------- tasks
\* the Task interface
Task(id, title, dueDate, status, createdAt) ==
    [id |-> id, title |-> title, dueDate |-> dueDate, status |-> status,
     createdAt |-> createdAt]

\* ----------------------------------------------------------- MOCK_API
\* JSON.stringify of one Task: its members in insertion order
StringifyTask(t) ==
    << <<"id", t.id>>, <<"title", t.title>>, <<"dueDate", t.dueDate>>,
       <<"status", t.status>>, <<"createdAt", t.createdAt>> >>

\* JSON.stringify(tasks)
JSONstringify(ts) == [i \in 1..Len(ts) |-> StringifyTask(ts[i])]

\* value of member key in a serialised object
Member(obj, key) == CHOOSE i \in 1..Len(obj) : obj[i][1] = key

\* JSON.parse of one serialised object
ParseTask(obj) ==
    [id        |-> obj[Member(obj, "id")][2],
     title     |-> obj[Member(obj, "title")][2],
     dueDate   |-> obj[Member(obj, "dueDate")][2],
     status    |-> obj[Member(obj, "status")][2],
     createdAt |-> obj[Member(obj, "createdAt")][2]]

\* a parse that yields the array elements last to first
JSONparseReversed(text) ==
    [i \in 1..Len(text) |-> ParseTask(text[Len(text) + 1 - i])]

\* JSON.parse(stored)
JSONparse(text) == [i \in 1..Len(text) |-> ParseTask(text[i])]

\* the storage slot before anything was written: getItem returns null
EmptySlot == [has |-> FALSE, text |-> <<>>]

\* a getTasks whose test of the stored value is the other way round
getTasksInverted(slot) == IF slot.has THEN <<>> ELSE JSONparse(slot.text)

\* MOCK_API.getTasks in the browser: stored ? JSON.parse(stored) : []
getTasks(slot) == IF slot.has THEN JSONparse(slot.text) ELSE <<>>

\* MOCK_API.getTasks with its first line: where window is undefined (a render
\* on the server) there is no storage and the result is []
getTasksIn(window, slot) ==
    IF window = "undefined" THEN <<>> ELSE getTasks(slot)

\* MOCK_API.saveTasks
saveTasks(ts) == [has |-> TRUE, text |-> JSONstringify(ts)]

\* a save effect without the guard: it writes whatever tasks holds
EffectGuardAlways(ts) == TRUE

\* the guard of the save effect, tasks.length > 0
EffectGuard(ts) == Len(ts) > 0

\* the save effect: runs after every render in which tasks changed
SaveEffect(ts, slot) == IF EffectGuard(ts) THEN saveTasks(ts) ELSE slot

\* how localStorage.setItem ends: the value is stored, or the call throws
\* because the quota of the origin is used up
setItem(room) == IF room = "free" THEN "stored" ELSE "QuotaExceededError"

\* ------------------------------------------------------ filteredTasks
\* the filter predicate comparing the raw search text, without toLowerCase
MatchesRawSearch(task, text, f) ==
    LET matchesSearch == includes(toLowerCase(task.title), text)
        matchesFilter == f = "all" \/ task.status = f
    IN  matchesSearch /\ matchesFilter

\* the predicate of tasks.filter(...)
Matches(task, text, f) ==
    LET matchesSearch == includes(toLowerCase(task.title), toLowerCase(text))
        matchesFilter == f = "all" \/ task.status = f
    IN  matchesSearch /\ matchesFilter

\* the comparator of .sort(...)
Compare(a, b, key) ==
    IF key = "date" THEN DateGetTime(a.dueDate) - DateGetTime(b.dueDate)
    ELSE localeCompare(a.title, b.title)

RECURSIVE InsertSortedUnstable(_, _, _)
\* an insertion that places x before the elements it compares equal to
InsertSortedUnstable(sorted, x, key) ==
    IF Len(sorted) = 0 THEN <<x>>
    ELSE IF Compare(Head(sorted), x, key) < 0
         THEN <<Head(sorted)>> \o InsertSortedUnstable(Tail(sorted), x, key)
         ELSE <<x>> \o sorted

RECURSIVE InsertSorted(_, _, _)
\* places x after every element that does not sort after it
InsertSorted(sorted, x, key) ==
    IF Len(sorted) = 0 THEN <<x>>
    ELSE IF Compare(Head(sorted), x, key) <= 0
         THEN <<Head(sorted)>> \o InsertSorted(Tail(sorted), x, key)
         ELSE <<x>> \o sorted

RECURSIVE SortBy(_, _)
\* Array.prototype.sort with the comparator: a stable sort
SortBy(s, key) ==
    IF Len(s) = 0 THEN <<>>
    ELSE InsertSorted(SortBy(SubSeq(s, 1, Len(s) - 1), key), s[Len(s)], key)

\* the useMemo body
FilteredTasksOf(ts, text, f, key) ==
    SortBy(SelectSeq(ts, LAMBDA t : Matches(t, text, f)), key)

\* a useMemo body that sorts the state array itself, tasks.sort(...)
MemoSortsInPlace(ts, text, f, key) == SortBy(ts, key)

\* the array in state after the useMemo body ran on it: .filter builds a new
\* array and .sort sorts that one in place, so the array it was given is
\* left as it was
MemoLeaves(ts, text, f, key) == ts

\* a visible list computed from the text as it is typed
filteredTasksOfRawSearch == FilteredTasksOf(tasks, search, filter, sortBy)

\* what the component renders in the current state
filteredTasks == FilteredTasksOf(tasks, debouncedSearch, filter, sortBy)

\* --------------------------------------------------------- handlers
\* an optional value: <<>> is null, <<x>> is x
Null == <<>>
Some(x) == <<x>>

\* record of the last handler, for the history variable: its name, its
\* arguments, the status in the editingTask snapshot it read, the button
\* that last opened the modal it was submitted from, and how it completed.
\* No handler of the component has a throw statement: each one returns.
Op(name, id, title, dueDate) ==
    [op |-> name, id |-> id, title |-> title, dueDate |-> dueDate,
     editing |-> Null, opener |-> "none", result |-> "returned"]

\* the state every page load starts from (the useState initial values)
InitialState ==
    /\ tasks = <<>>
    /\ search = <<>>
    /\ debouncedSearch = <<>>
    /\ filter = "all"
    /\ sortBy = "date"
    /\ isModalOpen = FALSE
    /\ editingTask = Null
    /\ phase = "mounted"

Init ==
    /\ InitialState
    /\ storage = EmptySlot
    /\ issued = {}
    /\ now = 0
    /\ prev = <<>>
    /\ last = Op("none", 0, <<>>, <<>>)
    /\ deleted = {}
    /\ wrote = FALSE
    /\ saved = <<>>
    /\ opener = "none"
    /\ quota = "free"

\* the save effect of a render whose tasks is ts.  When the guard lets it
\* call saveTasks, setItem either stores the value or throws; the effect has
\* no try/catch and the component no error boundary, so a throw unmounts
\* the tree.  The phase after a completed effect is done.
RunSaveEffect(ts, done) ==
    LET outcome == IF EffectGuard(ts) THEN setItem(quota) ELSE "stored"
    IN  /\ wrote' = EffectGuard(ts)
        /\ storage' = IF outcome = "stored" THEN SaveEffect(ts, storage) ELSE storage
        /\ saved' = IF outcome = "stored" /\ EffectGuard(ts) THEN ts ELSE saved
        /\ phase' = IF outcome = "stored" THEN done ELSE "crashed"

\* setTasks(next) followed by the re-render and its save effect
SetTasks(next) ==
    LET after == MemoLeaves(next, debouncedSearch, filter, sortBy)
    IN  /\ tasks' = after
        /\ prev' = tasks
        /\ RunSaveEffect(after, "ready")

\* the effects of the first render, in the order they are declared: the load
\* effect calls setTasks(getTasks()), then the save effect runs on the empty
\* collection of that render
MountEffects ==
    /\ phase = "mounted"
    /\ tasks' = getTasks(storage)
    /\ prev' = tasks
    /\ RunSaveEffect(tasks, "loaded")
    /\ last' = Op("load", 0, <<>>, <<>>)
    /\ UNCHANGED << view, modal, issued, now, deleted, quota >>

\* the render the load caused: its save effect runs on the loaded collection
LoadedRender ==
    /\ phase = "loaded"
    /\ RunSaveEffect(tasks, "ready")
    /\ UNCHANGED << tasks, view, modal, issued, now, prev, last, deleted, quota >>

\* the update branch rebuilding the task from the snapshot taken when the
\* modal was opened, { ...editingTask, title, dueDate }
UpdateMapFromSnapshot(ts, target, title, dueDate) ==
    [i \in 1..Len(ts) |->
        IF ts[i].id = target.id
        THEN [target EXCEPT !.title = title, !.dueDate = dueDate]
        ELSE ts[i]]

\* tasks.map of the update branch
UpdateMap(ts, target, title, dueDate) ==
    [i \in 1..Len(ts) |->
        IF ts[i].id = target.id
        THEN [ts[i] EXCEPT !.title = title, !.dueDate = dueDate]
        ELSE ts[i]]

\* closeModal
closeModalEffect ==
    /\ isModalOpen' = FALSE
    /\ editingTask' = Null
    /\ opener' = "none"

\* handleSaveTask, update branch: the form is submitted while editingTask is set
UpdateTask(title, dueDate) ==
    /\ phase = "ready"
    /\ isModalOpen
    /\ editingTask # Null
    /\ SetTasks(UpdateMap(tasks, editingTask[1], title, dueDate))
    /\ closeModalEffect
    /\ last' = [Op("update", editingTask[1].id, title, dueDate)
                    EXCEPT !.editing = Some(editingTask[1].status),
                           !.opener = opener]
    /\ UNCHANGED << view, issued, now, deleted, quota >>

\* an id taken from the length of the collection, as a counter would give it
randomUUIDFromLength == {Len(tasks) + 1} \cap Ids

\* crypto.randomUUID(): an id that was never returned before.  The handlers
\* only compare ids for equality, so which fresh id is returned makes no
\* difference: the model returns the least unused one, and none once the
\* ids of the model are used up.
randomUUID == IF issued = Ids THEN {} ELSE {Cardinality(issued) + 1}

\* the create branch adding the new task at the end, [...tasks, newTask]
CreateAppend(ts, newTask) == ts \o <<newTask>>

\* the array built by the create branch, [newTask, ...tasks]
CreatePrepend(ts, newTask) == <<newTask>> \o ts

\* handleSaveTask, create branch: the form is submitted while editingTask is null.
\* Two submissions are separated by reopening the modal, so Date.now() reads
\* a later time at each of them.
CreateTask(title, dueDate) ==
    /\ phase = "ready"
    /\ isModalOpen
    /\ editingTask = Null
    /\ \E id \in randomUUID :
        /\ now' = now + 1
        /\ issued' = issued \cup {id}
        /\ SetTasks(CreatePrepend(tasks, Task(id, title, dueDate, "pending", now')))
        /\ last' = [Op("create", id, title, dueDate) EXCEPT !.opener = opener]
    /\ closeModalEffect
    /\ UNCHANGED << view, deleted, quota >>

\* toggleStatus through tasks.findIndex and tasks.at: for an id that is not
\* in the collection findIndex gives -1 and at(-1) is the last task
ToggleMapAtIndex(ts, id) ==
    LET k == IF \E i \in 1..Len(ts) : ts[i].id = id
             THEN CHOOSE i \in 1..Len(ts) : ts[i].id = id
             ELSE Len(ts)
    IN  [i \in 1..Len(ts) |->
            IF i = k
            THEN [ts[i] EXCEPT !.status = IF ts[i].status = "pending" THEN "done" ELSE "pending"]
            ELSE ts[i]]

\* toggleStatus that only ever marks a task done
ToggleMapOneWay(ts, id) ==
    [i \in 1..Len(ts) |->
        IF ts[i].id = id THEN [ts[i] EXCEPT !.status = "done"] ELSE ts[i]]

\* tasks.map of toggleStatus
ToggleMap(ts, id) ==
    [i \in 1..Len(ts) |->
        IF ts[i].id = id
        THEN [ts[i] EXCEPT !.status = IF ts[i].status = "pending" THEN "done" ELSE "pending"]
        ELSE ts[i]]

\* toggleStatus(id)
toggleStatus(id) ==
    /\ phase = "ready"
    /\ SetTasks(ToggleMap(tasks, id))
    /\ last' = Op("toggle", id, <<>>, <<>>)
    /\ UNCHANGED << view, modal, issued, now, deleted, quota >>

\* deleteTask with the test inverted, t.id === id
DeleteFilterInverted(ts, id) == SelectSeq(ts, LAMBDA t : t.id = id)

\* tasks.filter of deleteTask
DeleteFilter(ts, id) == SelectSeq(ts, LAMBDA t : t.id # id)

\* deleteTask(id)
deleteTask(id) ==
    /\ phase = "ready"
    /\ SetTasks(DeleteFilter(tasks, id))
    /\ last' = Op("delete", id, <<>>, <<>>)
    /\ deleted' = IF \E i \in 1..Len(tasks) : tasks[i].id = id
                  THEN deleted \cup {id} ELSE deleted
    /\ UNCHANGED << view, modal, issued, now, quota >>

\* openModal(task): the edit button of a task of the collection
openModalEdit(task) ==
    /\ phase = "ready"
    /\ editingTask' = Some(task)
    /\ isModalOpen' = TRUE
    /\ opener' = "edit"
    /\ UNCHANGED << tasks, view, storage, wrote, saved, phase, issued, now, prev, last, deleted, quota >>

\* openModal(): the "Add Task" button
openModalAdd ==
    /\ phase = "ready"
    /\ isModalOpen' = TRUE
    /\ opener' = "add"
    /\ UNCHANGED << tasks, view, editingTask, storage, wrote, saved, phase, issued, now,
                    prev, last, deleted, quota >>

\* closeModal: the Cancel button
closeModal ==
    /\ phase = "ready"
    /\ isModalOpen
    /\ closeModalEffect
    /\ UNCHANGED << tasks, view, storage, wrote, saved, phase, issued, now, prev, last, deleted, quota >>

\* setSearch(e.target.value): the raw text is no dependency of the useMemo,
\* so the visible list is not computed again
SetSearch(text) ==
    /\ phase = "ready"
    /\ search' = text
    /\ wrote' = FALSE
    /\ UNCHANGED << tasks, debouncedSearch, filter, sortBy, modal, storage, saved, phase, issued, now,
                    prev, last, deleted, quota >>

\* the timer of useDebounce fires: the debounced value catches up and the
\* visible list is computed again.  tasks is the same array as before, so the
\* save effect does not run.
DebounceFire ==
    /\ phase = "ready"
    /\ debouncedSearch # search
    /\ debouncedSearch' = search
    /\ tasks' = MemoLeaves(tasks, debouncedSearch', filter, sortBy)
    /\ wrote' = FALSE
    /\ UNCHANGED << search, filter, sortBy, modal, storage, saved, phase, issued, now,
                    prev, last, deleted, quota >>

\* setFilter(f)
SetFilter(f) ==
    /\ phase = "ready"
    /\ filter' = f
    /\ tasks' = MemoLeaves(tasks, debouncedSearch, filter', sortBy)
    /\ wrote' = FALSE
    /\ UNCHANGED << search, debouncedSearch, sortBy, modal, storage, saved, phase, issued, now,
                    prev, last, deleted, quota >>

\* setSortBy(sortBy === "date" ? "name" : "date")
ToggleSort ==
    /\ phase = "ready"
    /\ sortBy' = IF sortBy = "date" THEN "name" ELSE "date"
    /\ tasks' = MemoLeaves(tasks, debouncedSearch, filter, sortBy')
    /\ wrote' = FALSE
    /\ UNCHANGED << search, debouncedSearch, filter, modal, storage, saved, phase, issued, now,
                    prev, last, deleted, quota >>

\* the page is closed and opened again: the component state is rebuilt from
\* the useState initial values, the storage slot survives
Reload ==
    /\ phase \in {"ready", "crashed"}
    /\ tasks' = <<>>
    /\ search' = <<>>
    /\ debouncedSearch' = <<>>
    /\ filter' = "all"
    /\ sortBy' = "date"
    /\ isModalOpen' = FALSE
    /\ editingTask' = Null
    /\ phase' = "mounted"
    /\ prev' = tasks
    /\ last' = Op("reload", 0, <<>>, <<>>)
    /\ opener' = "none"
    /\ wrote' = FALSE
    /\ UNCHANGED << storage, saved, issued, now, deleted, quota >>

Next ==
    \/ MountEffects
    \/ LoadedRender
    \/ \E form \in Forms : UpdateTask(form.title, form.dueDate)
    \/ \E form \in Forms : CreateTask(form.title, form.dueDate)
    \/ \E id \in Ids : toggleStatus(id)
    \/ \E id \in Ids : deleteTask(id)
    \/ \E i \in 1..Len(tasks) : openModalEdit(tasks[i])
    \/ openModalAdd
    \/ closeModal
    \/ Reload

\* the origin runs out of localStorage quota (other pages of the origin
\* write to it too); from then on setItem throws
QuotaFills ==
    /\ phase = "ready"
    /\ quota = "free"
    /\ quota' = "full"
    /\ UNCHANGED << tasks, view, modal, storage, wrote, saved, phase, issued, now,
                    prev, last, deleted >>

\* the collection and its persistence: every handler that changes tasks,
\* the modal, and page loads; the view parameters keep their initial values
Spec == Init /\ [][Next]_vars

\* the same with a storage that can run out of room
SpecQuota == Init /\ [][Next \/ QuotaFills]_vars

\* ------------------------------------------------ the visible list alone
RECURSIVE Descending(_)
\* the ids of S, largest first: the order in which prepending leaves them
Descending(S) ==
    IF S = {} THEN <<>>
    ELSE LET m == CHOOSE x \in S : \A y \in S : y <= x
         IN  <<m>> \o Descending(S \ {m})

\* the collections of at most n tasks the handlers can build: tasks with
\* distinct ids, newest first, each with the title and due date of a
\* submitted form and either status
CollectionsUpTo(n) ==
    UNION { LET ids == Descending(S)
            IN  { [i \in 1..Len(ids) |->
                      Task(ids[i], f[i].form.title, f[i].form.dueDate,
                           f[i].status, ids[i])] :
                  f \in [1..Len(ids) -> [form : Forms, status : Statuses]] }
            : S \in SUBSET (1..n) }

Collections == CollectionsUpTo(MaxLen)

\* a loaded page showing one of the collections of at most n tasks
LoadedPage(n) ==
    /\ tasks \in CollectionsUpTo(n)
    /\ search = <<>>
    /\ debouncedSearch = <<>>
    /\ filter = "all"
    /\ sortBy = "date"
    /\ isModalOpen = FALSE
    /\ editingTask = Null
    /\ phase = "ready"
    /\ storage = SaveEffect(tasks, EmptySlot)
    /\ wrote = EffectGuard(tasks)
    /\ saved = tasks
    /\ opener = "none"
    /\ quota = "free"
    /\ issued = 1..n
    /\ now = n
    /\ prev = tasks
    /\ last = Op("load", 0, <<>>, <<>>)
    /\ deleted = (1..n) \ { tasks[i].id : i \in 1..Len(tasks) }

InitView == LoadedPage(MaxLen)

NextView ==
    \/ \E text \in Searches : SetSearch(text)
    \/ DebounceFire
    \/ \E f \in Filters : SetFilter(f)
    \/ ToggleSort

\* the view parameters over a fixed collection
SpecView == InitView /\ [][NextView]_vars

\* ------------------------------------------ typing while the list changes
InitDebounce == LoadedPage(MaxShown)

NextDebounce ==
    \/ \E text \in Searches : SetSearch(text)
    \/ DebounceFire
    \/ \E f \in Filters : SetFilter(f)
    \/ \E id \in 1..MaxShown : toggleStatus(id)
    \/ \E id \in 1..MaxShown : deleteTask(id)

\* the user types and filters while tasks are toggled and deleted.
\* The timer useDebounce sets after a change of the search text runs out
\* unless the text changes again first, so the step that brings the
\* debounced value up to date is taken once it stays enabled.
SpecDebounce ==
    InitDebounce /\ [][NextDebounce]_vars /\ WF_vars(DebounceFire)

\* ------------------------------------------------------------ properties
\* the ids of the tasks of a collection
IdsOf(ts) == { ts[i].id : i \in 1..Len(ts) }

\* ts without its k-th element
Without(ts, k) == SubSeq(ts, 1, k - 1) \o SubSeq(ts, k + 1, Len(ts))

RECURSIVE Trim(_)
\* a string without its leading and trailing spaces
Trim(str) ==
    IF Len(str) = 0 THEN str
    ELSE IF Head(str) = " " THEN Trim(Tail(str))
    ELSE IF str[Len(str)] = " " THEN Trim(SubSeq(str, 1, Len(str) - 1))
    ELSE str

\* the last handler was a mutation that succeeded: a create, a delete, or an
\* update or toggle of a task that was in the collection
SuccessfulMutation ==
    \/ last.op \in {"create", "delete"}
    \/ last.op \in {"update", "toggle"} /\ last.id \in IdsOf(prev)

\* C1: once a successful create, update, toggleStatus or delete has been
\* processed, the collection read back from the store equals the in-memory
\* collection, also when the mutation left the collection empty.
C1_StoreEqualsMemoryAfterMutation ==
    (phase = "ready" /\ SuccessfulMutation) => getTasks(storage) = tasks

\* C2: a task removed by delete is removed for good: in no later state,
\* page loads included, does the collection hold a task with that id.
C2_DeletedNeverReturns ==
    \A i \in 1..Len(tasks) : tasks[i].id \notin deleted

\* C3: after delete(id) no task of the collection has that id; a delete of an
\* id that was not in the collection leaves the collection as it was, and a
\* delete of a present id removes that one task and keeps the others, their
\* fields and their order.
C3_Delete ==
    last.op = "delete" =>
        /\ last.id \notin IdsOf(tasks)
        /\ last.id \notin IdsOf(prev) => tasks = prev
        /\ last.id \in IdsOf(prev) =>
              \E k \in 1..Len(prev) : prev[k].id = last.id /\ tasks = Without(prev, k)

\* a delete of an id that an earlier delete had removed, on a collection
\* that still holds a task
C3_Witness ==
    /\ last.op = "delete"
    /\ last.id \in deleted
    /\ last.id \notin IdsOf(prev)
    /\ Len(tasks) > 0

\* C4: create adds exactly one task: its id is none of the ids the collection
\* held, its status is pending, its title and due date are the submitted
\* ones, it is the head of the collection, and the tasks the collection held
\* follow it unchanged and in their order.
C4_Create ==
    last.op = "create" =>
        /\ Len(tasks) = Len(prev) + 1
        /\ tasks[1].id = last.id
        /\ tasks[1].id \notin IdsOf(prev)
        /\ tasks[1].status = "pending"
        /\ tasks[1].title = last.title
        /\ tasks[1].dueDate = last.dueDate
        /\ \A i \in 1..Len(prev) : tasks[i + 1] = prev[i]

\* a create on a collection that already held a task
C4_Witness ==
    /\ last.op = "create"
    /\ Len(prev) > 0
    /\ Trim(last.title) # <<>>

\* C5: a create whose title is empty after trimming leaves the collection
\* unchanged and does not complete normally.
C5_BlankTitleRejected ==
    (last.op = "create" /\ Trim(last.title) = <<>>) =>
        /\ tasks = prev
        /\ last.result # "returned"

\* C6: an update of a present id changes the title and the due date of that
\* task to the submitted ones and nothing else: the task keeps its id, its
\* status (the current one, not the one it had when the modal was opened),
\* its createdAt and its position, and every other task is unchanged.
C6_Update ==
    (last.op = "update" /\ last.id \in IdsOf(prev)) =>
        /\ Len(tasks) = Len(prev)
        /\ \A i \in 1..Len(prev) :
              IF prev[i].id = last.id
              THEN /\ tasks[i].id = prev[i].id
                   /\ tasks[i].status = prev[i].status
                   /\ tasks[i].createdAt = prev[i].createdAt
                   /\ tasks[i].title = last.title
                   /\ tasks[i].dueDate = last.dueDate
              ELSE tasks[i] = prev[i]

\* an update that changed the title of a task whose status had been toggled
\* while the modal was open, in a collection holding another task
C6_Witness ==
    /\ last.op = "update"
    /\ Len(prev) > 1
    /\ \E i \in 1..Len(prev) :
          /\ prev[i].id = last.id
          /\ last.editing[1] # prev[i].status
          /\ prev[i].title # last.title

C8_Toggle ==
    /\ (last.op = "toggle" /\ last.id \in IdsOf(prev)) =>
          /\ Len(tasks) = Len(prev)
          /\ \A i \in 1..Len(prev) :
                IF prev[i].id = last.id
                THEN /\ tasks[i].status \in Statuses
                     /\ tasks[i].status # prev[i].status
                     /\ [tasks[i] EXCEPT !.status = prev[i].status] = prev[i]
                ELSE tasks[i] = prev[i]
    /\ \A id \in Ids : ToggleMap(ToggleMap(tasks, id), id) = tasks

\* a toggle that took a done task back to pending, beside another task
C8_Witness ==
    /\ last.op = "toggle"
    /\ Len(prev) > 1
    /\ \E i \in 1..Len(prev) :
          prev[i].id = last.id /\ prev[i].status = "done" /\ tasks[i].status = "pending"

\* the title contains the text as a substring, letter case ignored
ContainsIgnoringCase(title, text) ==
    \E off \in 0..(Len(title) - Len(text)) :
        \A i \in 1..Len(text) : LowerChar(title[off + i]) = LowerChar(text[i])

\* the task belongs in the visible list
Wanted(t) ==
    /\ ContainsIgnoringCase(t.title, debouncedSearch)
    /\ filter = "all" \/ t.status = filter

\* how many times t occurs in s
Occurrences(s, t) == Cardinality({ i \in 1..Len(s) : s[i] = t })

\* C9: the visible list holds exactly the tasks of the collection whose title
\* contains the search text, letter case ignored, and whose status equals
\* the filter or the filter is all, each of them once; with an empty search
\* text and the filter all it holds every task of the collection.
C9_VisibleIsTheFilteredCollection ==
    LET visible == filteredTasks
    IN  /\ \A i \in 1..Len(tasks) :
              Occurrences(visible, tasks[i]) = IF Wanted(tasks[i]) THEN 1 ELSE 0
        /\ \A j \in 1..Len(visible) : \E i \in 1..Len(tasks) : visible[j] = tasks[i]
        /\ (debouncedSearch = <<>> /\ filter = "all") => Len(visible) = Len(tasks)

\* a search text in the other letter case and a status filter keep some
\* tasks of the collection and drop others for either reason
C9_Witness ==
    /\ debouncedSearch = <<"A">>
    /\ filter = "done"
    /\ Len(filteredTasks) > 0
    /\ \E i \in 1..Len(tasks) : tasks[i].status = "pending" /\ tasks[i].title = <<"B", "a">>
    /\ \E i \in 1..Len(tasks) : tasks[i].status = "done" /\ tasks[i].title = <<" ">>

\* calendar order of two due dates: -1, 0 or 1
CalendarOrder(d, e) ==
    IF d = e THEN 0
    ELSE IF \/ d[1] < e[1]
            \/ d[1] = e[1] /\ d[2] < e[2]
            \/ d[1] = e[1] /\ d[2] = e[2] /\ d[3] < e[3]
         THEN -1 ELSE 1

\* order of two tasks under the current sort key: -1, 0 or 1
KeyOrder(a, b) ==
    IF sortBy = "date" THEN CalendarOrder(a.dueDate, b.dueDate)
    ELSE localeCompare(a.title, b.title)

\* position of the task with this id in the collection
PositionOf(id) == CHOOSE i \in 1..Len(tasks) : tasks[i].id = id

\* C10: the visible list is in ascending order of due date when the sort key
\* is date and of title when it is name, and two visible tasks with equal
\* keys are in the order they have in the collection.
C10_VisibleIsSortedStably ==
    LET visible == filteredTasks
    IN  \A i, j \in 1..Len(visible) :
            i < j =>
                /\ KeyOrder(visible[i], visible[j]) <= 0
                /\ KeyOrder(visible[i], visible[j]) = 0 =>
                      PositionOf(visible[i].id) < PositionOf(visible[j].id)

\* three visible tasks sorted by name, two of them with equal keys, in another order than
\* the collection has them
C10_Witness ==
    /\ sortBy = "name"
    /\ Len(filteredTasks) = 3
    /\ filteredTasks # tasks
    /\ \E i, j \in 1..3 :
          i < j /\ KeyOrder(filteredTasks[i], filteredTasks[j]) = 0

\* C11: a step that changes the search text, the debounced text, the status
\* filter or the sort key, and the computation of the visible list it
\* causes, leave the collection with its order and the store as they were
\* and do not call saveTasks.
C11_ViewChangesLeaveCollectionAndStore ==
    [][ view' # view =>
            /\ tasks' = tasks
            /\ storage' = storage
            /\ saved' = saved
            /\ ~wrote' ]_vars

\* the view parameters were all changed over a stored collection of three
\* tasks that the current sort key orders otherwise, and nothing was written
C11_Witness ==
    /\ sortBy = "name"
    /\ filter = "done"
    /\ debouncedSearch = <<"A">>
    /\ Len(tasks) = 3
    /\ SortBy(tasks, sortBy) # tasks
    /\ storage = saveTasks(tasks)
    /\ ~wrote

C13_WitnessNoData ==
    /\ last.op = "load"
    /\ ~storage.has
    /\ tasks = <<>>

\* C14: when the write of the save effect fails after a mutation, the
\* collection in memory is the mutated one, the component is still mounted
\* and the visible list is the filter-and-sort of the mutated collection.
C14_FailedWriteIsNotFatal ==
    (/\ last.op \in {"create", "update", "toggle", "delete"}
     /\ wrote
     /\ setItem(quota) = "QuotaExceededError")
        => /\ phase = "ready"
           /\ filteredTasks = FilteredTasksOf(tasks, debouncedSearch, filter, sortBy)
           /\ storage.has => getTasks(storage) = saved

\* the tasks of ts and us that have the same id have the same createdAt
SameCreatedAt(ts, us) ==
    \A i \in 1..Len(ts), j \in 1..Len(us) :
        ts[i].id = us[j].id => ts[i].createdAt = us[j].createdAt

\* C15: no two tasks of the collection have the same id; update and
\* toggleStatus leave the id and createdAt of the task at every position as
\* they were; create, delete and load leave every task that was there before
\* (in memory, or in the store) with the createdAt it had.
C15_IdsUniqueAndIdentityKept ==
    /\ \A i, j \in 1..Len(tasks) : tasks[i].id = tasks[j].id => i = j
    /\ last.op \in {"update", "toggle"} =>
          /\ Len(tasks) = Len(prev)
          /\ \A i \in 1..Len(tasks) :
                /\ tasks[i].id = prev[i].id
                /\ tasks[i].createdAt = prev[i].createdAt
    /\ last.op \in {"create", "delete"} =>
          /\ SameCreatedAt(tasks, prev)
          /\ IdsOf(tasks) \ {last.id} = IdsOf(prev) \ {last.id}
    /\ SameCreatedAt(tasks, getTasks(storage))

\* the older of two tasks was updated
C15_Witness ==
    /\ last.op = "update"
    /\ Len(tasks) = 2
    /\ last.id = tasks[2].id
    /\ tasks[2] # prev[2]
    /\ tasks[1].createdAt > tasks[2].createdAt

\* C16: every task of the collection has a title that is not empty once
\* leading and trailing white space is removed.
C16_TitlesNonEmptyAfterTrim ==
    \A i \in 1..Len(tasks) : Trim(tasks[i].title) # <<>>

\* C17: from the mount of the component up to the first mutation by the user
\* (the reload, the effects of the first render, the render the load causes,
\* and opening or closing the modal after it) every step leaves the persisted
\* collection as it was, and once the load is applied the collection in
\* memory is the persisted one.
C17_StartupKeepsPersistedData ==
    /\ [][ last'.op \in {"reload", "load"} =>
               getTasks(storage') = getTasks(storage) ]_vars
    /\ [](last.op = "load" /\ phase \in {"loaded", "ready"} =>
               tasks = getTasks(storage))

\* a page load brought back two persisted tasks and the save effect of the
\* render after it wrote them again
C17_Witness ==
    /\ last.op = "load"
    /\ phase = "ready"
    /\ wrote
    /\ Len(getTasks(storage)) = 2
    /\ tasks = getTasks(storage)

\* C18: while the modal is closed editingTask is null; a form submitted after
\* the "Add Task" button opened the modal runs the create branch and a form
\* submitted after an edit button opened it runs the update branch, which
\* changes no task but the one with the id of the task that was opened; and
\* a submit or a cancel leaves the modal closed.
C18_SubmitFollowsTheButtonThatOpened ==
    /\ ~isModalOpen => editingTask = Null
    /\ ~isModalOpen <=> opener = "none"
    /\ last.op = "create" => last.opener = "add"
    /\ last.op = "update" =>
          /\ last.opener = "edit"
          /\ Len(tasks) = Len(prev)
          /\ \A i \in 1..Len(tasks) :
                tasks[i] # prev[i] => tasks[i].id = last.id

\* the list holds exactly the tasks of the collection that contain the text
\* and pass the status filter, each of them once
ShowsExactly(visible, text) ==
    /\ \A i \in 1..Len(tasks) :
          Occurrences(visible, tasks[i]) =
              IF /\ ContainsIgnoringCase(tasks[i].title, text)
                 /\ filter = "all" \/ tasks[i].status = filter
              THEN 1 ELSE 0
    /\ \A j \in 1..Len(visible) : \E i \in 1..Len(tasks) : visible[j] = tasks[i]

\* C19: in every state the visible list is the selection of the current
\* collection under the debounced search text, also right after a task was
\* toggled or deleted and also while the typed text differs from it; and if
\* the typed text stops changing, the debounced text eventually equals it
\* and from then on the visible list is the selection under the typed text.
C19_VisibleFollowsDebouncedSearch ==
    /\ [](LET visible == filteredTasks
          IN  ShowsExactly(visible, debouncedSearch))
    /\ \A s \in Searches :
          <>[](search = s) =>
              <>[](debouncedSearch = s /\ ShowsExactly(filteredTasks, s))

\* a task was toggled while the typed text was ahead of the debounced one:
\* the visible list changed with the toggle and is not the selection under
\* the typed text
C19_Witness ==
    /\ last.op = "toggle"
    /\ search # debouncedSearch
    /\ filter = "done"
    /\ filteredTasks # FilteredTasksOf(prev, debouncedSearch, filter, sortBy)
    /\ filteredTasks # FilteredTasksOf(tasks, search, filter, sortBy)

====
